---- MODULE Spec2Model ----
(***************************************************************************)
(* The useGeminiLive hook of VibeNote-AI (src/App.tsx, lines 569-1104) as  *)
(* a state machine: the session controller (connect / disconnect, the      *)
(* remote session's callbacks, the reconnect timer), resource teardown,    *)
(* the playback queue and the transcript aggregator.                       *)
(*                                                                         *)
(* Every invocation of connect() gets the next attempt number a; the       *)
(* AudioContext, the capture streams, the processor and the remote session *)
(* it creates are all named a.  A ref holds an attempt number, or 0 for    *)
(* null.  ctxOpen, micLive, sysLive and procLive are the browser's side of *)
(* the handles: what has been acquired and not yet released.               *)
(***************************************************************************)
EXTENDS Integers, Sequences, FiniteSets, TLC

\* ---------------------------------------------------------------- bounds
MaxAttempts == 2
MaxBuffers == 2
MaxSegments == 3
MaxChars == 4

Attempts == 1..MaxAttempts
Refs == 0..MaxAttempts
Buffers == 1..MaxBuffers

\* ---------------------------------------------------------------- values
Null == "null"
DISCONNECTED == "DISCONNECTED"
CONNECTING == "CONNECTING"
CONNECTED == "CONNECTED"
ERROR == "ERROR"
StreamStatus == {DISCONNECTED, CONNECTING, CONNECTED, ERROR}

MsgMissingKey == "API Key is missing."
MsgFailed == "Failed to start session."
MsgDenied == "Microphone permission denied."

\* A string is the sequence of its characters.  The texts a caller may
\* pass: the empty string, a blank one and two with content.
Texts == {<<>>, <<" ">>, <<"h", "i">>, <<"o", "k", "!">>}

\* Samples and the noise gate threshold are counted in hundredths: the
\* threshold 0.01 the App starts with is 1.
DefaultThreshold == 1
MaxThreshold == 5
Thresholds == 0..MaxThreshold
\* Blocks of samples, in hundredths of full scale.
BlockLen == 2
Levels == {-2, 0, 1, 2}
Blocks == [1..BlockLen -> Levels]
Quiet == [i \in 1..BlockLen |-> 0]

\* No utility has been called.
\* calc records the last call of a function of audioUtils: its name, its
\* arguments (data, n, arg), the sequence it returned (out), the indices of
\* the argument it read (idx) and how it ended (res).
NoCall == [fn |-> "none", data |-> <<>>, n |-> 0, arg |-> <<>>, out |-> <<>>,
           idx |-> {}, res |-> ""]
\* The mimeType of every blob createBlob returns.
MimeType == "audio/pcm;rate=16000"
\* Sample rates.
PCM_SAMPLE_RATE == 16000
Rates == {8000, 16000, 24000, 32000, 44100, 48000}
\* Sample values for the resampler are whole multiples of 1/16000 of a
\* level, so that every interpolated value is a whole number of them.
Level == PCM_SAMPLE_RATE
MaxLen == 3
MaxRun == 9
RECURSIVE SeqsUpTo(_, _)
SeqsUpTo(S, n) ==
  IF n = 0 THEN {<<>>}
  ELSE SeqsUpTo(S, n - 1) \cup [1..n -> S]
\* Samples handed to createBlob, in halves: -2.0, -1.0, -0.5, 0, 0.5, 1.0, 2.0.
Halves == {-4, -2, -1, 0, 1, 2, 4}
\* Payloads handed to decodeAudioData.
MaxBytes == 6
ByteValues == {0, 1, 128, 255}
Channels == {1, 2}
Payloads == SeqsUpTo(ByteValues, MaxBytes)
SampleBlocks == SeqsUpTo(Halves, MaxLen)
\* The buffer of the repository's own downsampling test, in half levels.
TestBuffer == <<2 * Level, 2 * Level, 2 * Level, Level, Level, Level,
                -2 * Level, -2 * Level, -2 * Level>>
\* Buffers handed to the resampler: every short one, runs of one value,
\* and the test buffer.
SampleBuffers ==
  SeqsUpTo({-Level, 0, Level}, MaxLen)
    \cup {[i \in 1..n |-> v] : n \in 0..MaxRun, v \in {0, Level, -2 * Level}}
    \cup {TestBuffer}

Undefined == "undefined"
ApiKeys == {Undefined, "", "test"}

VARIABLES
  status, errorMessage, isReconnecting, analyser, isMicOn,
  isLiveRef, shouldReconnectRef,
  audioContextRef, streamRef, systemStreamRef,
  processorRef, sourceRef, systemSourceRef, sessionRef,
  audioSourcesRef,
  bufferAccumulatorRef, bufferDebounceTimerRef,
  currentTranscriptBuffer, segments,
  pc, sess, sysStream,
  ctxOpen, micLive, sysLive, procLive,
  timers, nAttempts,
  userStopped,
  debounceTimers, lastSend,
  configRef, gated, calc, trackEnabled,
  textSent,
  isProcessingNotes, analysed, notes

hookState == <<status, errorMessage, isReconnecting, analyser, isMicOn>>
flags == <<isLiveRef, shouldReconnectRef>>
pipelineRefs == <<audioContextRef, streamRef, systemStreamRef,
                  processorRef, sourceRef, systemSourceRef>>
handles == <<ctxOpen, micLive, sysLive, procLive>>
pending == <<bufferAccumulatorRef, bufferDebounceTimerRef, debounceTimers>>
transcript == <<currentTranscriptBuffer, segments>>
\* The App component's side of the note organizer: whether a call is in
\* flight, the transcript that call was given, and the number of notes.
app == <<isProcessingNotes, analysed, notes>>
\* The noise gate threshold held in configRef, the block the last
\* onaudioprocess left after its gate, the outcome of the last reply-audio
\* chunk, the call of a stateless utility with its result, the text the
\* last sendTextMessage handed to the session, and the App's state.
side == <<configRef, gated, calc, trackEnabled, textSent, app>>
\* What stopAudioPipeline() assigns.
torn == <<isLiveRef, pending, audioSourcesRef, pipelineRefs, analyser, handles>>
vars == <<hookState, flags, pipelineRefs, sessionRef, audioSourcesRef,
          pending, transcript,
          pc, sess, sysStream, handles, timers, nAttempts, userStopped, lastSend, side>>

\* JavaScript truthiness of the apiKey prop: undefined and "" are falsy.
Falsy(k) == k = Undefined \/ k = ""

TypeOK ==
  /\ status \in StreamStatus
  /\ errorMessage \in {Null, MsgMissingKey, MsgFailed, MsgDenied}
  /\ isReconnecting \in BOOLEAN /\ isMicOn \in BOOLEAN
  /\ analyser \in Refs
  /\ isLiveRef \in BOOLEAN /\ shouldReconnectRef \in BOOLEAN
  /\ audioContextRef \in Refs /\ streamRef \in Refs /\ systemStreamRef \in Refs
  /\ processorRef \in Refs /\ sourceRef \in Refs /\ systemSourceRef \in Refs
  /\ sessionRef \in Refs
  /\ audioSourcesRef \subseteq Buffers
  /\ bufferDebounceTimerRef \in BOOLEAN
  /\ debounceTimers \in Nat
  /\ lastSend \in {"none", "sent", "threw"}
  /\ pc \in [Attempts -> {"idle", "resume", "mic", "sys", "handshake", "resolved", "done"}]
  /\ sess \in [Attempts -> {"none", "pending", "open", "closing", "closed"}]
  /\ sysStream \in [Attempts -> {"null", "failed", "stream"}]
  /\ ctxOpen \subseteq Attempts /\ micLive \subseteq Attempts
  /\ sysLive \subseteq Attempts /\ procLive \subseteq Attempts
  /\ timers \in 0..MaxAttempts
  /\ nAttempts \in 0..MaxAttempts
  /\ userStopped \in BOOLEAN
  /\ configRef \in Thresholds
  /\ gated \in {<<>>} \cup Blocks
  /\ trackEnabled \in BOOLEAN
  /\ isProcessingNotes \in BOOLEAN
  /\ notes \in Nat
  /\ calc.fn \in {"none", "downsampleTo16k", "createBlob", "decodeAudioData",
                 "organizeTranscript"}
  /\ calc.res \in {"", "returned", "threw", MimeType, "null", "note"}

Init ==
  /\ status = DISCONNECTED
  /\ errorMessage = Null
  /\ isReconnecting = FALSE
  /\ analyser = 0
  /\ isMicOn = TRUE
  /\ isLiveRef = FALSE
  /\ shouldReconnectRef = FALSE
  /\ audioContextRef = 0 /\ streamRef = 0 /\ systemStreamRef = 0
  /\ processorRef = 0 /\ sourceRef = 0 /\ systemSourceRef = 0
  /\ sessionRef = 0
  /\ audioSourcesRef = {}
  /\ bufferAccumulatorRef = <<>>
  /\ bufferDebounceTimerRef = FALSE
  /\ currentTranscriptBuffer = <<>>
  /\ segments = <<>>
  /\ pc = [a \in Attempts |-> "idle"]
  /\ sess = [a \in Attempts |-> "none"]
  /\ sysStream = [a \in Attempts |-> "null"]
  /\ ctxOpen = {} /\ micLive = {} /\ sysLive = {} /\ procLive = {}
  /\ timers = 0
  /\ nAttempts = 0
  /\ userStopped = FALSE
  /\ debounceTimers = 0
  /\ lastSend = "none"
  /\ configRef = DefaultThreshold
  /\ gated = <<>>
  /\ trackEnabled = TRUE
  /\ textSent = <<>>
  /\ isProcessingNotes = FALSE /\ analysed = <<>> /\ notes = 0
  /\ calc = NoCall


\* ------------------------------------------------------- resource teardown
\* What stopAudioPipeline() reads and writes, as one record.
TornState ==
  [isLiveRef |-> isLiveRef,
   bufferDebounceTimerRef |-> bufferDebounceTimerRef,
   debounceTimers |-> debounceTimers,
   bufferAccumulatorRef |-> bufferAccumulatorRef,
   audioSourcesRef |-> audioSourcesRef,
   processorRef |-> processorRef, procLive |-> procLive,
   sourceRef |-> sourceRef,
   systemSourceRef |-> systemSourceRef,
   streamRef |-> streamRef, micLive |-> micLive,
   systemStreamRef |-> systemStreamRef, sysLive |-> sysLive,
   audioContextRef |-> audioContextRef, ctxOpen |-> ctxOpen,
   analyser |-> analyser]

\* A teardown that leaves the playing reply buffers alone.
TeardownKeepsSources(r) ==
  [isLiveRef |-> FALSE,
   bufferDebounceTimerRef |-> FALSE,
   debounceTimers |-> IF r.bufferDebounceTimerRef THEN r.debounceTimers - 1
                                                  ELSE r.debounceTimers,
   bufferAccumulatorRef |-> <<>>,
   audioSourcesRef |-> r.audioSourcesRef,
   processorRef |-> 0, procLive |-> r.procLive \ {r.processorRef},
   sourceRef |-> 0,
   systemSourceRef |-> 0,
   streamRef |-> 0, micLive |-> r.micLive \ {r.streamRef},
   systemStreamRef |-> 0, sysLive |-> r.sysLive \ {r.systemStreamRef},
   audioContextRef |-> 0, ctxOpen |-> r.ctxOpen \ {r.audioContextRef},
   analyser |-> 0]

\* A teardown that forgets the audio context.
TeardownKeepsContext(r) ==
  [isLiveRef |-> FALSE,
   bufferDebounceTimerRef |-> FALSE,
   debounceTimers |-> IF r.bufferDebounceTimerRef THEN r.debounceTimers - 1
                                                  ELSE r.debounceTimers,
   bufferAccumulatorRef |-> <<>>,
   audioSourcesRef |-> {},
   processorRef |-> 0, procLive |-> r.procLive \ {r.processorRef},
   sourceRef |-> 0,
   systemSourceRef |-> 0,
   streamRef |-> 0, micLive |-> r.micLive \ {r.streamRef},
   systemStreamRef |-> 0, sysLive |-> r.sysLive \ {r.systemStreamRef},
   audioContextRef |-> r.audioContextRef, ctxOpen |-> r.ctxOpen,
   analyser |-> 0]

\* The effect of stopAudioPipeline() on the state r: the live flag is
\* dropped, the pending debounce timer (if the marker is set) is cleared,
\* the accumulator is emptied, the playing buffers are stopped and the set
\* cleared, and every handle that is held is released and its ref nulled.
\* Every step is skipped when its ref is already null (removing attempt 0
\* from a set of attempts removes nothing).
Teardown(r) ==
  [isLiveRef |-> FALSE,
   bufferDebounceTimerRef |-> FALSE,
   debounceTimers |-> IF r.bufferDebounceTimerRef THEN r.debounceTimers - 1
                                                  ELSE r.debounceTimers,
   bufferAccumulatorRef |-> <<>>,
   audioSourcesRef |-> {},
   processorRef |-> 0, procLive |-> r.procLive \ {r.processorRef},
   sourceRef |-> 0,
   systemSourceRef |-> 0,
   streamRef |-> 0, micLive |-> r.micLive \ {r.streamRef},
   systemStreamRef |-> 0, sysLive |-> r.sysLive \ {r.systemStreamRef},
   audioContextRef |-> 0, ctxOpen |-> r.ctxOpen \ {r.audioContextRef},
   analyser |-> 0]

\* stopAudioPipeline() as a step.  It does not touch sessionRef, status,
\* shouldReconnectRef or isReconnecting.
StopAudioPipeline ==
  LET t == Teardown(TornState) IN
  /\ isLiveRef' = t.isLiveRef
  /\ bufferDebounceTimerRef' = t.bufferDebounceTimerRef
  /\ debounceTimers' = t.debounceTimers
  /\ bufferAccumulatorRef' = t.bufferAccumulatorRef
  /\ audioSourcesRef' = t.audioSourcesRef
  /\ processorRef' = t.processorRef /\ procLive' = t.procLive
  /\ sourceRef' = t.sourceRef
  /\ systemSourceRef' = t.systemSourceRef
  /\ streamRef' = t.streamRef /\ micLive' = t.micLive
  /\ systemStreamRef' = t.systemStreamRef /\ sysLive' = t.sysLive
  /\ audioContextRef' = t.audioContextRef /\ ctxOpen' = t.ctxOpen
  /\ analyser' = t.analyser

\* The names of the errors a rejected await of connect() may carry.
ErrorNames == {"NotAllowedError", "NotFoundError", "Error"}

\* The message the catch block of connect() picks for an error.
CatchMessage(name) ==
  IF name = "NotAllowedError" THEN MsgDenied ELSE MsgFailed

\* The catch block of connect(): the message, status Error, teardown.
ConnectCatch(msg) ==
  /\ errorMessage' = msg
  /\ status' = ERROR
  /\ StopAudioPipeline

\* ---------------------------------------------------------------- disconnect
\* session.close() asks the socket to close; its closed event follows later
\* ("closing": nothing but the closed event is left to come).  An exception
\* of close() is caught and logged, the result is the same.
CloseSession(s) ==
  IF s # 0 /\ sess[s] \in {"pending", "open"}
    THEN [sess EXCEPT ![s] = "closing"]
    ELSE sess

\* A disconnect() that leaves a requested reconnect standing.
DisconnectFlagsKeepReconnect ==
  /\ shouldReconnectRef' = shouldReconnectRef
  /\ isReconnecting' = FALSE

\* The flags disconnect() clears first.
DisconnectFlags ==
  /\ shouldReconnectRef' = FALSE
  /\ isReconnecting' = FALSE

\* disconnect(), called by the user.  threw: session.close() raised, which
\* leaves the socket as it was.
Disconnect(threw) ==
  /\ DisconnectFlags
  /\ sess' = IF threw THEN sess ELSE CloseSession(sessionRef)
  /\ sessionRef' = 0
  /\ StopAudioPipeline
  /\ status' = DISCONNECTED
  /\ userStopped' = TRUE
  /\ UNCHANGED <<errorMessage, isMicOn, transcript, pc, sysStream, timers,
                 nAttempts, lastSend, side>>

\* ---------------------------------------------------------------- connect
\* A credential check that only catches an absent key.
MissingCredentialUndefinedOnly(k) == k = Undefined

\* The guard of connect(): a falsy apiKey.
MissingCredential(k) == Falsy(k)

\* connect() with a falsy key: the message is set and connect() returns.
ConnectNoKey ==
  /\ errorMessage' = MsgMissingKey
  /\ UNCHANGED <<status, isReconnecting, isMicOn, shouldReconnectRef,
                 sessionRef, torn, transcript, pc, sess, sysStream,
                 nAttempts>>

\* A connect() that forgets to withdraw the reconnect request.
ConnectResetFlagsKeepReconnect ==
  /\ isLiveRef' = TRUE
  /\ shouldReconnectRef' = shouldReconnectRef

\* The flags connect() resets before its first await.
ConnectResetFlags ==
  /\ isLiveRef' = TRUE
  /\ shouldReconnectRef' = FALSE

\* connect() past the credential check, from there to its first await, as
\* attempt a.  The new AudioContext is either running (audioContextRef is
\* set at once and getUserMedia is awaited) or suspended (ctx.resume() is
\* awaited first, audioContextRef is set after it); or the constructor
\* throws and the catch block runs in the same step.
ConnectStart(a) ==
  /\ nAttempts' = a
  /\ \/ /\ ConnectResetFlags
        /\ errorMessage' = Null
        /\ status' = CONNECTING
        /\ ctxOpen' = ctxOpen \cup {a}
        /\ \/ /\ audioContextRef' = a
              /\ pc' = [pc EXCEPT ![a] = "mic"]
           \/ /\ audioContextRef' = audioContextRef
              /\ pc' = [pc EXCEPT ![a] = "resume"]
        /\ UNCHANGED <<pending, audioSourcesRef, streamRef, systemStreamRef,
                       processorRef, sourceRef, systemSourceRef, analyser,
                       micLive, sysLive, procLive>>
     \/ /\ shouldReconnectRef' = FALSE
        /\ ConnectCatch(MsgFailed)
        /\ pc' = [pc EXCEPT ![a] = "done"]
  /\ UNCHANGED <<isReconnecting, isMicOn, sessionRef, transcript, sess,
                 sysStream>>

\* connect() as a whole up to its first await, with the apiKey k of its
\* closure.
ConnectCall(k) ==
  IF MissingCredential(k)
    THEN ConnectNoKey
    ELSE /\ nAttempts < MaxAttempts
         /\ ConnectStart(nAttempts + 1)

\* The user calls connect(); k is the apiKey prop of the current render.
Connect ==
  /\ \E k \in ApiKeys : ConnectCall(k)
  /\ userStopped' = FALSE
  /\ UNCHANGED <<timers, lastSend, side>>

\* The steps of connect() after an await.  A rejected await runs the catch
\* block with the refs as they are then.
ConnectFails(a, msg) ==
  /\ ConnectCatch(msg)
  /\ pc' = [pc EXCEPT ![a] = "done"]
  /\ UNCHANGED <<isReconnecting, isMicOn, shouldReconnectRef, sessionRef,
                 transcript, sess, sysStream, timers, nAttempts, userStopped, lastSend, side>>

\* ai.live.connect(config): the remote session of attempt a exists from
\* here on and its callbacks may fire.
OpenSession(a) ==
  /\ sess' = [sess EXCEPT ![a] = "pending"]
  /\ pc' = [pc EXCEPT ![a] = "handshake"]

\* await ctx.resume() returns: audioContextRef is set, getUserMedia is
\* called.
ConnectResumed(a) ==
  /\ pc[a] = "resume"
  /\ \/ /\ audioContextRef' = a
        /\ pc' = [pc EXCEPT ![a] = "mic"]
        /\ UNCHANGED <<hookState, flags, streamRef, systemStreamRef,
                       processorRef, sourceRef, systemSourceRef, sessionRef,
                       audioSourcesRef, pending, transcript, sess, sysStream,
                       handles, timers, nAttempts, userStopped, lastSend, side>>
     \/ ConnectFails(a, MsgFailed)

\* await getUserMedia() returns the microphone stream: streamRef is set;
\* with systemAudioEnabled getDisplayMedia is awaited next, otherwise the
\* remote session is opened.  A rejection runs the catch block with the
\* name of its error.  The tracks of the new stream are enabled as isMicOn
\* says (the isMicOn of the render connect() was made in: it is the current
\* one, no specification with connect() toggles the microphone).
ConnectMic(a) ==
  /\ pc[a] = "mic"
  /\ \/ /\ streamRef' = a
        /\ micLive' = micLive \cup {a}
        /\ trackEnabled' = isMicOn
        /\ \/ /\ pc' = [pc EXCEPT ![a] = "sys"]
              /\ sess' = sess
           \/ OpenSession(a)
        /\ UNCHANGED <<hookState, flags, audioContextRef, systemStreamRef,
                       processorRef, sourceRef, systemSourceRef, sessionRef,
                       audioSourcesRef, pending, transcript, sysStream,
                       ctxOpen, sysLive, procLive, timers, nAttempts,
                       userStopped, lastSend, configRef, gated, calc,
                 textSent, app>>
     \/ \E name \in ErrorNames : ConnectFails(a, CatchMessage(name))

\* sysStream[a] is the local sysStream of attempt a: "null" while
\* systemAudioEnabled is off or getDisplayMedia was not reached, "failed"
\* for the null left by a rejected getDisplayMedia, "stream" for the
\* captured stream.  The local is dropped when connect() returns.

\* getDisplayMedia() resolves: the system stream is kept in its ref.
SysCaptureAcquired(a) ==
  /\ systemStreamRef' = a
  /\ sysLive' = sysLive \cup {a}
  /\ sysStream' = [sysStream EXCEPT ![a] = "stream"]
  /\ OpenSession(a)
  /\ UNCHANGED <<hookState, flags, audioContextRef, streamRef, processorRef,
                 sourceRef, systemSourceRef, sessionRef, audioSourcesRef,
                 pending, transcript, ctxOpen, micLive, procLive, timers,
                 nAttempts, userStopped, lastSend, side>>

\* A rejected getDisplayMedia() that fails the whole connect().
SysCaptureSkippedIsFatal(a) ==
  /\ ConnectCatch(MsgFailed)
  /\ pc' = [pc EXCEPT ![a] = "done"]
  /\ sysStream' = [sysStream EXCEPT ![a] = "failed"]
  /\ UNCHANGED <<isReconnecting, isMicOn, shouldReconnectRef, sessionRef,
                 transcript, sess, timers, nAttempts, userStopped, lastSend, side>>

\* getDisplayMedia() rejects: the inner catch logs it and connect() goes
\* on without a system stream.
SysCaptureSkipped(a) ==
  /\ sysStream' = [sysStream EXCEPT ![a] = "failed"]
  /\ OpenSession(a)
  /\ UNCHANGED <<hookState, flags, pipelineRefs, sessionRef, audioSourcesRef,
                 pending, transcript, handles, timers, nAttempts,
                 userStopped, lastSend, side>>

\* await getDisplayMedia() returns; the remote session is opened.
ConnectSys(a) ==
  /\ pc[a] = "sys"
  /\ \/ SysCaptureAcquired(a)
     \/ SysCaptureSkipped(a)

\* await sessionPromise returns: sessionRef is set and the audio pipeline
\* is built (analyser, microphone source, vocal chain, system source when
\* a system stream with an audio track was captured, processor with its
\* onaudioprocess callback).  There is no check of isLiveRef here.  Node
\* creation may throw (the context may have been closed meanwhile), which
\* runs the catch block after sessionRef was set.
ConnectPipeline(a) ==
  /\ pc[a] = "resolved"
  /\ sessionRef' = a
  /\ pc' = [pc EXCEPT ![a] = "done"]
  /\ \/ /\ analyser' = a
        /\ sourceRef' = a
        /\ systemSourceRef' \in (IF sysStream[a] = "stream"
                                  THEN {a, systemSourceRef}
                                  ELSE {systemSourceRef})
        /\ processorRef' = a
        /\ procLive' = procLive \cup {a}
        /\ UNCHANGED <<status, errorMessage, isLiveRef, audioContextRef,
                       streamRef, systemStreamRef, audioSourcesRef, pending,
                       ctxOpen, micLive, sysLive>>
     \/ ConnectCatch(MsgFailed)
  /\ sysStream' = [sysStream EXCEPT ![a] = "null"]
  /\ UNCHANGED <<isReconnecting, isMicOn, shouldReconnectRef, transcript,
                 sess, timers, nAttempts, userStopped, lastSend, side>>

\* await sessionPromise rejects: no session was established and none of
\* its callbacks will fire.
ConnectRejected(a) ==
  /\ pc[a] = "handshake"
  /\ sess[a] = "pending"
  /\ ConnectCatch(MsgFailed)
  /\ pc' = [pc EXCEPT ![a] = "done"]
  /\ sess' = [sess EXCEPT ![a] = "closed"]
  /\ sysStream' = [sysStream EXCEPT ![a] = "null"]
  /\ UNCHANGED <<isReconnecting, isMicOn, shouldReconnectRef, sessionRef,
                 transcript, timers, nAttempts, userStopped, lastSend, side>>

\* ------------------------------------------------- remote session callbacks
\* An onopen without the cancellation guard.
OnOpenNeverCancelled == FALSE

\* An onopen that also returns early while a reconnect is shown.
OnOpenCancelledOrReconnecting == ~isLiveRef \/ isReconnecting

\* onopen returns early when the user disconnected during the handshake.
OnOpenCancelled == ~isLiveRef

\* callbacks.onopen of session a; the session promise resolves with it.
OnOpen(a) ==
  /\ sess[a] = "pending"
  /\ sess' = [sess EXCEPT ![a] = "open"]
  /\ pc' = [pc EXCEPT ![a] = "resolved"]
  /\ IF OnOpenCancelled
       THEN UNCHANGED <<status, isReconnecting>>
       ELSE /\ status' = CONNECTED
            /\ isReconnecting' = FALSE
  /\ UNCHANGED <<errorMessage, isMicOn, shouldReconnectRef, sessionRef, torn,
                 transcript, sysStream, timers, nAttempts, userStopped, lastSend, side>>

\* An onclose without the reconnect guard.
OnCloseSkipsNever == FALSE

\* onclose skips the status update while a reconnect is requested.
OnCloseSkips == shouldReconnectRef

\* callbacks.onclose of session a.
OnClose(a) ==
  /\ sess[a] \in {"pending", "open", "closing"}
  /\ sess' = [sess EXCEPT ![a] = "closed"]
  /\ IF OnCloseSkips
       THEN UNCHANGED <<status, torn>>
       ELSE /\ status' = DISCONNECTED
            /\ StopAudioPipeline
  /\ UNCHANGED <<errorMessage, isReconnecting, isMicOn, shouldReconnectRef,
                 sessionRef, transcript, pc, sysStream, timers, nAttempts,
                 userStopped, lastSend, side>>

\* An onerror that tests the reconnect flag instead of the live flag.
OnErrorRetriesWrongFlag == shouldReconnectRef

\* An onerror that retries whether or not the session is active.
OnErrorRetriesAlways == TRUE

\* onerror retries when the connection dropped while active.
OnErrorRetries == isLiveRef

\* setTimeout(() => connect(), 1500): one more pending reconnect callback.
ScheduleReconnect == timers + 1

\* callbacks.onerror of session a; a socket that failed only closes after.
OnError(a) ==
  /\ sess[a] \in {"pending", "open"}
  /\ sess' = [sess EXCEPT ![a] = "closing"]
  /\ IF OnErrorRetries
       THEN /\ shouldReconnectRef' = TRUE
            /\ isReconnecting' = TRUE
            /\ status' = CONNECTING
            /\ StopAudioPipeline
            /\ timers' = ScheduleReconnect
       ELSE /\ StopAudioPipeline
            /\ UNCHANGED <<shouldReconnectRef, isReconnecting, status, timers>>
  /\ UNCHANGED <<errorMessage, isMicOn, sessionRef, transcript, pc, sysStream,
                 nAttempts, userStopped, lastSend, side>>

\* A reconnect callback whose closure holds no key.
ClosureKeyUndefined == Undefined

\* The apiKey of the closure that scheduled a reconnect: that connect() got
\* past its credential check, so the key is truthy.
ClosureKey == CHOOSE k \in ApiKeys : ~Falsy(k)

\* A scheduled reconnect callback fires: it calls connect().
ReconnectTimer ==
  /\ timers > 0
  /\ timers' = timers - 1
  /\ ConnectCall(ClosureKey)
  /\ UNCHANGED <<userStopped, lastSend, side>>

\* ------------------------------------------------------------- playback
\* The buffer source created for the next reply-audio chunk.
NewSource == CHOOSE b \in Buffers : b \notin audioSourcesRef

\* A playback that does not look at the talkback switch.
PlaysChunkIgnoresTalkback(tb) == audioContextRef # 0

\* A reply-audio chunk is played when a context is held and talkbackRef
\* (tb) is set.
PlaysChunk(tb) == audioContextRef # 0 /\ tb

\* The try around decodeAudioData: a chunk whose decoding threw is logged
\* and skipped.
ChunkDecoded(decoded) == decoded

\* The audio part of callbacks.onmessage of session a: a reply-audio chunk
\* is decoded and played when a context is held and talkbackRef (the
\* talkbackEnabled prop of the current render, tb) is set.  decoded:
\* decodeAudioData returned a buffer; it threw otherwise.
OnMessageAudio(a, tb, decoded) ==
  /\ sess[a] = "open"
  /\ audioSourcesRef # Buffers
  /\ IF PlaysChunk(tb) /\ ChunkDecoded(decoded)
       THEN audioSourcesRef' = audioSourcesRef \cup {NewSource}
       ELSE audioSourcesRef' = audioSourcesRef
  /\ UNCHANGED <<hookState, flags, pipelineRefs, sessionRef, pending,
                 transcript, pc, sess, sysStream, handles, timers, nAttempts,
                 userStopped, lastSend, side>>

\* source.onended of a playing buffer.
SourceEnded(b) ==
  /\ b \in audioSourcesRef
  /\ audioSourcesRef' = audioSourcesRef \ {b}
  /\ UNCHANGED <<hookState, flags, pipelineRefs, sessionRef, pending,
                 transcript, pc, sess, sysStream, handles, timers, nAttempts,
                 userStopped, lastSend, side>>

\* -------------------------------------------------------------- capture
\* A send path that looks at the handles only, not at the live flag.
FrameDroppedHandlesOnly == processorRef = 0 \/ audioContextRef = 0

\* The block is dropped: by the guard of onaudioprocess (not live, no
\* processor held or no context held) or, once the block is encoded, by
\* the guard of the deferred send (not live).  The session promise is
\* resolved before the processor exists, so the deferred send runs as a
\* microtask of the same callback: no other handler runs in between.
FrameDropped ==
  \/ ~isLiveRef \/ processorRef = 0 \/ audioContextRef = 0
  \/ ~isLiveRef

\* What no send touches.
sendFrame == <<hookState, flags, pipelineRefs, sessionRef, audioSourcesRef,
               pending, transcript, pc, sess, sysStream, handles, timers,
               nAttempts, userStopped>>

\* A send failure handled like a remote error: teardown and reconnect.
SendErrorReconnects ==
  /\ shouldReconnectRef' = TRUE
  /\ isReconnecting' = TRUE
  /\ status' = CONNECTING
  /\ StopAudioPipeline
  /\ timers' = timers + 1
  /\ UNCHANGED <<errorMessage, isMicOn, sessionRef, transcript, pc, sess,
                 sysStream, nAttempts, userStopped>>

\* The catch around session.sendRealtimeInput(): the error is logged.
SendErrorAbsorbed == UNCHANGED sendFrame

\* A toggle that only ever mutes.
MicAfterToggleOff(prev) == FALSE

\* newState = !prev
MicAfterToggle(prev) == ~prev

\* toggleMic(): the flag is flipped and the tracks of the stream streamRef
\* holds, if it holds one, are enabled or disabled with it.
ToggleMic ==
  /\ isMicOn' = MicAfterToggle(isMicOn)
  /\ trackEnabled' = IF streamRef # 0 THEN MicAfterToggle(isMicOn)
                                      ELSE trackEnabled
  /\ UNCHANGED <<status, errorMessage, isReconnecting, analyser, flags,
                 pipelineRefs, sessionRef, audioSourcesRef, pending,
                 transcript, pc, sess, sysStream, handles, timers, nAttempts,
                 userStopped, lastSend, configRef, gated, calc,
                 textSent, app>>

\* The sum of the squares of the samples.
RECURSIVE SumSquares(_)
SumSquares(block) ==
  IF block = <<>> THEN 0
  ELSE block[1] * block[1] + SumSquares(Tail(block))

\* A gate that also silences a block whose level equals the threshold.
BelowThresholdOrEqual(block, threshold) ==
  SumSquares(block) <= threshold * threshold * Len(block)

\* rms < threshold with rms = sqrt(sumSquares / length): neither side is
\* negative, so the squares compare as the values do and the division is
\* multiplied out.  A threshold of 0 is below no level.
BelowThreshold(block, threshold) ==
  SumSquares(block) < threshold * threshold * Len(block)

\* The noise gate: inputData.fill(0) when the level is below the threshold.
NoiseGate(block, threshold) ==
  IF BelowThreshold(block, threshold)
    THEN [i \in 1..Len(block) |-> 0]
    ELSE block

\* The effect that copies the audioConfig prop to configRef, run when the
\* settings slider moved: threshold is the new noiseGateThreshold.
SetAudioConfig(threshold) ==
  /\ configRef' = threshold
  /\ UNCHANGED <<hookState, flags, pipelineRefs, sessionRef, audioSourcesRef,
                 pending, transcript, pc, sess, sysStream, handles, timers,
                 nAttempts, userStopped, lastSend, gated, calc, trackEnabled,
                 textSent, app>>

\* processor.onaudioprocess of the processor of attempt a, which the audio
\* engine calls for every block while the processor is connected and the
\* callback is set.  The guards read the refs of the hook, whichever
\* attempt set them; the frame goes to the session of attempt a.  block:
\* the samples of the input buffer, gated with the threshold configRef
\* holds at that moment (gated is the block after the gate).  threw:
\* sendRealtimeInput raised.  lastSend is the outcome of the last send.
OnAudioProcess(a, block, threw) ==
  /\ a \in procLive
  /\ IF FrameDropped
       THEN UNCHANGED vars
       ELSE /\ gated' = NoiseGate(block, configRef)
            /\ UNCHANGED <<configRef, calc, trackEnabled, textSent, app>>
            /\ IF threw
                 THEN lastSend' = "threw" /\ SendErrorAbsorbed
                 ELSE lastSend' = "sent" /\ UNCHANGED sendFrame

\* ------------------------------------------------------------ transcript
\* What the transcript aggregator leaves alone.
controller == <<status, errorMessage, isReconnecting, analyser, isMicOn,
                flags, pipelineRefs, sessionRef, audioSourcesRef, pc, sess,
                sysStream, handles, timers, nAttempts, userStopped, lastSend>>
session == <<controller, side>>

\* A queueTranscriptUpdate that starts a timer for every fragment.
StartsDebounceTimerAlways == TRUE

\* queueTranscriptUpdate starts a timer only when none is marked pending.
StartsDebounceTimer == ~bufferDebounceTimerRef

\* queueTranscriptUpdate(text): " " + text is appended to the accumulator
\* and the 200 ms timer is started unless one is marked.
QueueTranscriptUpdate(text) ==
  /\ bufferAccumulatorRef' = bufferAccumulatorRef \o <<" ">> \o text
  /\ IF StartsDebounceTimer
       THEN /\ bufferDebounceTimerRef' = TRUE
            /\ debounceTimers' = debounceTimers + 1
       ELSE UNCHANGED <<bufferDebounceTimerRef, debounceTimers>>

\* A flush that shows only what was pending.
FlushReplaces(prev, textToFlush) == textToFlush

\* setCurrentTranscriptBuffer(prev => prev + textToFlush).
Flush(prev, textToFlush) == prev \o textToFlush

\* The debounce timer fires: a non-empty accumulator is moved to the end
\* of the visible buffer; the marker is cleared either way.
DebounceFire ==
  /\ debounceTimers > 0
  /\ debounceTimers' = debounceTimers - 1
  /\ IF bufferAccumulatorRef # <<>>
       THEN /\ currentTranscriptBuffer' =
                 Flush(currentTranscriptBuffer, bufferAccumulatorRef)
            /\ bufferAccumulatorRef' = <<>>
       ELSE UNCHANGED <<currentTranscriptBuffer, bufferAccumulatorRef>>
  /\ bufferDebounceTimerRef' = FALSE
  /\ UNCHANGED <<segments, session>>

\* text.trim() is empty: every character is white space.
Blank(text) == \A i \in 1..Len(text) : text[i] = " "

\* A sendTextMessage that hands the text to any session it holds.
ForwardsTextIfHeld == sessionRef # 0

\* sessionRef.current && isLiveRef.current: the text goes to the session.
ForwardsText == sessionRef # 0 /\ isLiveRef

\* An updater that forgets the segments before the new one.
UserSegmentReplaces(prev, text) ==
  << [sender |-> "user", text |-> text, isPartial |-> FALSE] >>

\* The updater sendTextMessage passes to setSegments: the earlier segments
\* and a new final segment of the user with the text.
AppendUserSegment(prev, text) ==
  Append(prev, [sender |-> "user", text |-> text, isPartial |-> FALSE])

\* sendTextMessage(text): a blank text is ignored; otherwise a final user
\* segment is appended (its id and timestamp, taken from the clock, are not
\* part of the state) and the text is queued for the visible buffer.  The
\* text is also handed to the session when one is held and live: textSent
\* is what this call passed to sendRealtimeInput, empty when it passed
\* nothing.
SendTextMessage(text) ==
  IF Blank(text)
    THEN UNCHANGED vars
    ELSE /\ Len(segments) < MaxSegments
         /\ segments' = AppendUserSegment(segments, text)
         /\ QueueTranscriptUpdate(text)
         /\ textSent' = IF ForwardsText THEN text ELSE <<>>
         /\ UNCHANGED <<currentTranscriptBuffer, controller, configRef, gated,
                        calc, trackEnabled, app>>

\* -------------------------------------------------------------- segments
\* The number of characters in the texts of the segments.
RECURSIVE TotalLen(_)
TotalLen(segs) ==
  IF segs = <<>> THEN 0
  ELSE Len(segs[Len(segs)].text) + TotalLen(SubSeq(segs, 1, Len(segs) - 1))

\* A merge that looks at the partial flag only, not at the sender.
MergesIntoLastAnySender(prev, sender) ==
  /\ Len(prev) > 0
  /\ prev[Len(prev)].isPartial

\* The fragment extends the last segment: there is one, of the same sender
\* and still partial.
MergesIntoLast(prev, sender) ==
  /\ Len(prev) > 0
  /\ prev[Len(prev)].sender = sender
  /\ prev[Len(prev)].isPartial

\* A merge that rewrites the sender of every earlier segment.
MergeRetagsAll(prev, sender, text) ==
  IF MergesIntoLast(prev, sender)
    THEN [i \in 1..Len(prev) |->
            IF i = Len(prev) THEN [prev[i] EXCEPT !.text = @ \o text]
                             ELSE [prev[i] EXCEPT !.sender = sender]]
    ELSE Append([i \in 1..Len(prev) |-> [prev[i] EXCEPT !.sender = sender]],
                [sender |-> sender, text |-> text, isPartial |-> TRUE])

\* The updater passed to setSegments for a transcription fragment: the text
\* of the last segment is extended, or a new partial segment is appended.
Merge(prev, sender, text) ==
  IF MergesIntoLast(prev, sender)
    THEN [prev EXCEPT ![Len(prev)].text = @ \o text]
    ELSE Append(prev, [sender |-> sender, text |-> text, isPartial |-> TRUE])

\* A turn completion that finalizes the last segment only.
FinalizeLastOnly(prev) ==
  [i \in 1..Len(prev) |->
     IF i = Len(prev) THEN [prev[i] EXCEPT !.isPartial = FALSE] ELSE prev[i]]

\* The updater of a turn completion: every segment becomes final.
Finalize(prev) ==
  [i \in 1..Len(prev) |-> [prev[i] EXCEPT !.isPartial = FALSE]]

\* The segments after a message: the user's fragment, then the model's,
\* then the turn completion, each only when the message carries it (an
\* empty text is falsy).
AfterMessage(prev, inText, outText, turnComplete) ==
  LET s1 == IF inText # <<>> THEN Merge(prev, "user", inText) ELSE prev
      s2 == IF outText # <<>> THEN Merge(s1, "model", outText) ELSE s1
  IN IF turnComplete THEN Finalize(s2) ELSE s2

\* The accumulator after the queueTranscriptUpdate calls of a message.
Queued(acc, inText, outText) ==
  LET a1 == IF inText # <<>> THEN acc \o <<" ">> \o inText ELSE acc
  IN IF outText # <<>> THEN a1 \o <<" ">> \o outText ELSE a1

\* callbacks.onmessage of session a for a message without reply audio:
\* the transcription fragments and the turn completion.  The handler does
\* not look at isLiveRef or sessionRef.
OnMessage(a, inText, outText, turnComplete) ==
  /\ sess[a] = "open"
  /\ Len(AfterMessage(segments, inText, outText, turnComplete)) <= MaxSegments
  /\ TotalLen(AfterMessage(segments, inText, outText, turnComplete)) <= MaxChars
  /\ segments' = AfterMessage(segments, inText, outText, turnComplete)
  /\ bufferAccumulatorRef' = Queued(bufferAccumulatorRef, inText, outText)
  /\ IF (inText # <<>> \/ outText # <<>>) /\ StartsDebounceTimer
       THEN /\ bufferDebounceTimerRef' = TRUE
            /\ debounceTimers' = debounceTimers + 1
       ELSE UNCHANGED <<bufferDebounceTimerRef, debounceTimers>>
  /\ UNCHANGED <<currentTranscriptBuffer, session>>

\* ------------------------------------------------------------ audioUtils
\* What reading a Float32Array outside its bounds yields in arithmetic.
NaN == -2147483647

Min(x, y) == IF x < y THEN x ELSE y

\* Math.round(buffer.length / ratio), ratio = inputRate / PCM_SAMPLE_RATE:
\* the quotient rounded to the nearest whole number, a half upwards.
NewLength(len, inputRate) ==
  (2 * len * PCM_SAMPLE_RATE + inputRate) \div (2 * inputRate)

\* A floor index that is one too far.
IndexFloorNext(i, inputRate) == (i * inputRate) \div PCM_SAMPLE_RATE + 1

\* Math.floor(i * ratio).
IndexFloor(i, inputRate) == (i * inputRate) \div PCM_SAMPLE_RATE

\* A ceil index that is not clamped to the last sample.
IndexCeilUnclamped(i, inputRate, len) ==
  IF (i * inputRate) % PCM_SAMPLE_RATE = 0
    THEN (i * inputRate) \div PCM_SAMPLE_RATE
    ELSE (i * inputRate) \div PCM_SAMPLE_RATE + 1

\* Math.min(Math.ceil(i * ratio), buffer.length - 1).
IndexCeil(i, inputRate, len) ==
  Min(IF (i * inputRate) % PCM_SAMPLE_RATE = 0
        THEN (i * inputRate) \div PCM_SAMPLE_RATE
        ELSE (i * inputRate) \div PCM_SAMPLE_RATE + 1,
      len - 1)

\* inputIndex - indexFloor, as a number of 16000ths.
Weight(i, inputRate) == (i * inputRate) % PCM_SAMPLE_RATE

\* buffer[k] for a 0-based k.
ReadSample(buffer, k) ==
  IF k \in 0..(Len(buffer) - 1) THEN buffer[k + 1] ELSE NaN

\* buffer[indexFloor] * (1 - weight) + buffer[indexCeil] * weight.
Lerp(lo, hi, weight) ==
  IF lo = NaN \/ hi = NaN THEN NaN
  ELSE (lo * (PCM_SAMPLE_RATE - weight) + hi * weight) \div PCM_SAMPLE_RATE

\* downsampleTo16k(buffer, inputRate).
DownsampleTo16k(buffer, inputRate) ==
  IF inputRate = PCM_SAMPLE_RATE THEN buffer
  ELSE [j \in 1..NewLength(Len(buffer), inputRate) |->
          Lerp(ReadSample(buffer, IndexFloor(j - 1, inputRate)),
               ReadSample(buffer, IndexCeil(j - 1, inputRate, Len(buffer))),
               Weight(j - 1, inputRate))]

\* The indices of buffer that downsampleTo16k reads.
IndicesRead(len, inputRate) ==
  IF inputRate = PCM_SAMPLE_RATE THEN {}
  ELSE UNION {{IndexFloor(j - 1, inputRate), IndexCeil(j - 1, inputRate, len)} :
                j \in 1..NewLength(len, inputRate)}

\* tanh of a sample given in halves (0, 0.5, 1, 2), as a number of 2^-24,
\* rounded down.
Tanh24(h) ==
  CASE h = 0 -> 0
    [] h = 1 -> 7753039
    [] h = 2 -> 12777429
    [] h = 4 -> 16173698

\* t * scale / 2^24 rounded down, for t < 2^24 and scale <= 2^15, computed
\* in two halves so that no product leaves 32 bits.
MulShift(t, scale) ==
  ((t \div 256) * scale + ((t % 256) * scale) \div 256) \div 65536

\* The conversion of a number to an element of an Int16Array: the
\* fraction is dropped and the value wraps into -32768..32767.
ToInt16(v) == ((v + 32768) % 65536) - 32768

\* sample < 0 ? sample * 0x8000 : sample * 0x7FFF with sample = tanh(h / 2),
\* stored in the Int16Array.  tanh is odd; the product is truncated towards
\* zero.
Pcm16(h) ==
  IF h < 0 THEN ToInt16(-MulShift(Tanh24(-h), 32768))
           ELSE ToInt16(MulShift(Tanh24(h), 32767))

\* The bytes of an Int16Array, little-endian.
Int16Bytes(int16) ==
  [k \in 1..(2 * Len(int16)) |->
     LET u == (int16[(k + 1) \div 2] + 65536) % 65536
     IN IF k % 2 = 1 THEN u % 256 ELSE u \div 256]

\* The padding character of base64; the other characters are 0..63.
Pad == 64

\* encode(bytes): btoa of the bytes, as a sequence of base64 characters.
Encode(bytes) ==
  [j \in 1..(4 * ((Len(bytes) + 2) \div 3)) |->
     LET g == (j - 1) \div 4
         p == (j - 1) % 4
         b0 == bytes[3 * g + 1]
         b1 == IF 3 * g + 2 <= Len(bytes) THEN bytes[3 * g + 2] ELSE 0
         b2 == IF 3 * g + 3 <= Len(bytes) THEN bytes[3 * g + 3] ELSE 0
     IN CASE p = 0 -> b0 \div 4
          [] p = 1 -> (b0 % 4) * 16 + b1 \div 16
          [] p = 2 -> IF 3 * g + 2 <= Len(bytes)
                        THEN (b1 % 16) * 4 + b2 \div 64 ELSE Pad
          [] p = 3 -> IF 3 * g + 3 <= Len(bytes) THEN b2 % 64 ELSE Pad]

\* decode(base64): the bytes atob gives for a padded base64 string.
Decode(base64) ==
  LET pads == Cardinality({j \in 1..Len(base64) : base64[j] = Pad})
      c(j) == IF base64[j] = Pad THEN 0 ELSE base64[j]
  IN [k \in 1..(3 * (Len(base64) \div 4) - pads) |->
        LET g == (k - 1) \div 3
            q == (k - 1) % 3
        IN CASE q = 0 -> c(4 * g + 1) * 4 + c(4 * g + 2) \div 16
             [] q = 1 -> (c(4 * g + 2) % 16) * 16 + c(4 * g + 3) \div 4
             [] q = 2 -> (c(4 * g + 3) % 4) * 64 + c(4 * g + 4)]

\* createBlob(data).data for samples given in halves.
CreateBlob(data) ==
  Encode(Int16Bytes([i \in 1..Len(data) |-> Pcm16(data[i])]))

\* new Int16Array(data.buffer): the 16-bit values of the bytes.
Int16Of(bytes) ==
  [i \in 1..(Len(bytes) \div 2) |->
     ToInt16(bytes[2 * i - 1] + 256 * bytes[2 * i])]

\* decodeAudioData throws: the Int16Array constructor for a buffer of odd
\* length (RangeError), createBuffer for a length of 0 frames
\* (NotSupportedError; the frame count is cut to a whole number).
DecodeThrows(bytes, numChannels) ==
  \/ Len(bytes) % 2 # 0
  \/ (Len(bytes) \div 2) \div numChannels = 0

\* The samples of the AudioBuffer decodeAudioData returns, channel after
\* channel, as numbers of 1/32768: frame i of a channel is
\* dataInt16[i * numChannels + channel].
DecodeAudioData(bytes, numChannels) ==
  LET frameCount == (Len(bytes) \div 2) \div numChannels
  IN [k \in 1..(numChannels * frameCount) |->
        LET channel == (k - 1) \div frameCount
            i == (k - 1) % frameCount
        IN Int16Of(bytes)[i * numChannels + channel + 1]]

\* What a call of a function of audioUtils leaves alone.
hook == <<hookState, flags, pipelineRefs, sessionRef, audioSourcesRef,
          pending, transcript, pc, sess, sysStream, handles, timers,
          nAttempts, userStopped, lastSend, configRef, gated,
          trackEnabled, textSent, app>>

CallDownsample(buffer, inputRate) ==
  /\ calc' = [fn |-> "downsampleTo16k", data |-> buffer, n |-> inputRate,
              arg |-> <<>>,
              out |-> DownsampleTo16k(buffer, inputRate),
              idx |-> IndicesRead(Len(buffer), inputRate), res |-> "returned"]
  /\ UNCHANGED hook

CallCreateBlob(data) ==
  /\ calc' = [fn |-> "createBlob", data |-> data, n |-> 0, arg |-> <<>>,
              out |-> CreateBlob(data), idx |-> {}, res |-> MimeType]
  /\ UNCHANGED hook

CallDecodeAudioData(bytes, numChannels) ==
  /\ calc' = [fn |-> "decodeAudioData", data |-> bytes, n |-> numChannels,
              arg |-> <<>>,
              out |-> IF DecodeThrows(bytes, numChannels) THEN <<>>
                      ELSE DecodeAudioData(bytes, numChannels),
              idx |-> {},
              res |-> IF DecodeThrows(bytes, numChannels) THEN "threw"
                      ELSE "returned"]
  /\ UNCHANGED hook

\* ------------------------------------------------------------- organizer
\* What the remote model does with a request: the call is rejected, the
\* response has no text, the text is not JSON, or the text is the JSON of
\* a note.
Replies == {"rejected", "notext", "malformed", "note"}

\* The fields of a note the model returns.
NoteFields == <<"title", "summary", "topics", "actionItems", "decisions",
                "sentiment">>

\* A guard that lets a transcript of white space through.
NothingToOrganizeEmptyOnly(transcriptText, apiKey) ==
  Falsy(apiKey) \/ transcriptText = <<>>

\* !apiKey || !transcript.trim()
NothingToOrganize(transcriptText, apiKey) ==
  Falsy(apiKey) \/ Blank(transcriptText)

\* organizeTranscript(transcript, apiKey) when the model answers with
\* reply: the number of requests made to the model, how the promise
\* settles (the try block catches a rejected request and a failing
\* JSON.parse) and the fields of the object it resolves to.
OrganizeTranscript(transcriptText, apiKey, reply) ==
  IF NothingToOrganize(transcriptText, apiKey)
    THEN [calls |-> 0, res |-> "null", note |-> <<>>]
    ELSE IF reply = "note"
           THEN [calls |-> 1, res |-> "note",
                 note |-> Append(NoteFields, "timestamp")]
           ELSE [calls |-> 1, res |-> "null", note |-> <<>>]

CallOrganizeTranscript(transcriptText, apiKey, reply) ==
  /\ calc' = [fn |-> "organizeTranscript", data |-> transcriptText,
              n |-> OrganizeTranscript(transcriptText, apiKey, reply).calls,
              arg |-> <<apiKey, reply>>,
              out |-> OrganizeTranscript(transcriptText, apiKey, reply).note,
              idx |-> {},
              res |-> OrganizeTranscript(transcriptText, apiKey, reply).res]
  /\ UNCHANGED hook

\* ------------------------------------------------------------------- App
\* handleGenerateInsight returns below this length of the visible buffer.
MinInsightLength == 10

\* The texts typed while the organizer is used: a short one, and one long
\* enough for a note.
InsightTexts == {<<"h", "i">>,
                 <<"t", "a", "k", "e", " ", "n", "o", "t", "e", "s">>}

\* What the App's organizer calls leave alone in the hook.
besidesBuffer == <<controller, pending, segments, configRef, gated, calc,
                   trackEnabled, textSent>>

\* handleGenerateInsight() up to its await, called by the button or by the
\* auto-analyze effect, both only while no call is in flight.  The key is
\* process.env.API_KEY, the apiKey the hook connected with.  The call of
\* organizeTranscript is given the visible buffer of this render.
GenerateInsight ==
  /\ ~isProcessingNotes
  /\ IF Falsy(ClosureKey) \/ Len(currentTranscriptBuffer) < MinInsightLength
       THEN UNCHANGED vars
       ELSE /\ isProcessingNotes' = TRUE
            /\ analysed' = currentTranscriptBuffer
            /\ UNCHANGED <<notes, currentTranscriptBuffer, besidesBuffer>>

\* setCurrentTranscriptBuffer(""), whatever the buffer holds by then.
ResetBuffer(prev, given) == <<>>

\* handleGenerateInsight() behind its await: organizeTranscript resolved,
\* the model having answered with reply.  With a note, the note is kept
\* and the visible buffer is reset; the processing flag is cleared either
\* way.
InsightReturns(reply) ==
  /\ isProcessingNotes
  /\ IF OrganizeTranscript(analysed, ClosureKey, reply).res = "note"
       THEN /\ notes' = notes + 1
            /\ currentTranscriptBuffer' =
                 ResetBuffer(currentTranscriptBuffer, analysed)
       ELSE UNCHANGED <<notes, currentTranscriptBuffer>>
  /\ isProcessingNotes' = FALSE
  /\ analysed' = <<>>
  /\ UNCHANGED besidesBuffer

\* ------------------------------------------------------------ specification
Next ==
  \/ Connect
  \/ \E threw \in BOOLEAN : Disconnect(threw)
  \/ ReconnectTimer
  \/ \E a \in Attempts : ConnectResumed(a)
  \/ \E a \in Attempts : ConnectMic(a)
  \/ \E a \in Attempts : ConnectSys(a)
  \/ \E a \in Attempts : ConnectPipeline(a)
  \/ \E a \in Attempts : ConnectRejected(a)
  \/ \E a \in Attempts : OnOpen(a)
  \/ \E a \in Attempts : OnClose(a)
  \/ \E a \in Attempts : OnError(a)
  \/ \E a \in Attempts, tb \in BOOLEAN, decoded \in BOOLEAN :
        OnMessageAudio(a, tb, decoded)
  \/ \E b \in Buffers : SourceEnded(b)
  \/ \E a \in Attempts, threw \in BOOLEAN : OnAudioProcess(a, Quiet, threw)

Spec == Init /\ [][Next]_vars

\* The transcript aggregator on its own: texts typed by the user, the
\* debounce timer and the teardown of disconnect().
NextTranscript ==
  \/ \E text \in Texts : SendTextMessage(text)
  \/ DebounceFire
  \/ \E threw \in BOOLEAN : Disconnect(threw)

SpecTranscript == Init /\ [][NextTranscript]_vars

\* The state a first connect() arrives at when nothing goes wrong (running
\* context, microphone granted, no system audio, session opened, pipeline
\* wired): Connect, ConnectMic, OnOpen, ConnectPipeline of attempt 1.
Connected ==
  /\ status = CONNECTED /\ errorMessage = Null /\ isReconnecting = FALSE
  /\ analyser = 1 /\ isMicOn = TRUE
  /\ isLiveRef = TRUE /\ shouldReconnectRef = FALSE
  /\ audioContextRef = 1 /\ streamRef = 1 /\ systemStreamRef = 0
  /\ processorRef = 1 /\ sourceRef = 1 /\ systemSourceRef = 0
  /\ sessionRef = 1
  /\ audioSourcesRef = {}
  /\ pc = [a \in Attempts |-> IF a = 1 THEN "done" ELSE "idle"]
  /\ sess = [a \in Attempts |-> IF a = 1 THEN "open" ELSE "none"]
  /\ sysStream = [a \in Attempts |-> "null"]
  /\ ctxOpen = {1} /\ micLive = {1} /\ sysLive = {} /\ procLive = {1}
  /\ timers = 0 /\ nAttempts = 1 /\ userStopped = FALSE
  /\ lastSend = "none"

InitConnected ==
  /\ Connected
  /\ bufferAccumulatorRef = <<>> /\ bufferDebounceTimerRef = FALSE
  /\ debounceTimers = 0
  /\ currentTranscriptBuffer = <<>> /\ segments = <<>>
  /\ configRef = DefaultThreshold /\ gated = <<>>
  /\ trackEnabled = TRUE
  /\ textSent = <<>>
  /\ isProcessingNotes = FALSE /\ analysed = <<>> /\ notes = 0
  /\ calc = NoCall

\* The transcript of an established session: transcription messages, texts
\* typed by the user, the debounce timer, and the teardown by disconnect(),
\* by a close and by an error of the session.
NextSegments ==
  \/ \E a \in Attempts, inText \in Texts, outText \in Texts,
        turnComplete \in BOOLEAN : OnMessage(a, inText, outText, turnComplete)
  \/ \E text \in Texts : SendTextMessage(text)
  \/ DebounceFire
  \/ \E threw \in BOOLEAN : Disconnect(threw)
  \/ \E a \in Attempts : OnClose(a)
  \/ \E a \in Attempts : OnError(a)

SpecSegments == InitConnected /\ [][NextSegments]_vars

\* setTimeout(..., 200) of queueTranscriptUpdate: a debounce timer that was
\* started and not cleared fires.
SpecSegmentsFair == SpecSegments /\ WF_vars(DebounceFire)

\* The capture path of an established session: blocks from the audio
\* engine, the settings slider, and the ways the session ends.
NextCapture ==
  \/ \E a \in Attempts, block \in Blocks, threw \in BOOLEAN :
        OnAudioProcess(a, block, threw)
  \/ \E threshold \in Thresholds : SetAudioConfig(threshold)
  \/ ToggleMic
  \/ \E threw \in BOOLEAN : Disconnect(threw)
  \/ \E a \in Attempts : OnClose(a)
  \/ \E a \in Attempts : OnError(a)

SpecCapture == InitConnected /\ [][NextCapture]_vars

\* The functions of audioUtils, each behaviour applying one of them once
\* to arguments drawn from bounded sets.
NextAudioUtils ==
  \/ /\ calc = NoCall
     /\ \E buffer \in SampleBuffers, inputRate \in Rates :
          CallDownsample(buffer, inputRate)
  \/ /\ calc = NoCall
     /\ \E data \in SampleBlocks : CallCreateBlob(data)
  \/ /\ calc = NoCall
     /\ \E bytes \in Payloads, numChannels \in Channels :
          CallDecodeAudioData(bytes, numChannels)
  \/ /\ calc = NoCall
     /\ \E transcriptText \in Texts, apiKey \in ApiKeys, reply \in Replies :
          CallOrganizeTranscript(transcriptText, apiKey, reply)

SpecAudioUtils == Init /\ [][NextAudioUtils]_vars

\* An established session and what may follow it: texts typed by the
\* user, the end of the session by disconnect(), close or error, and the
\* next attempt, by the user or by the reconnect callback.
NextLifecycle ==
  \/ \E text \in Texts : SendTextMessage(text)
  \/ Connect
  \/ \E threw \in BOOLEAN : Disconnect(threw)
  \/ ReconnectTimer
  \/ \E a \in Attempts : ConnectResumed(a)
  \/ \E a \in Attempts : ConnectMic(a)
  \/ \E a \in Attempts : ConnectSys(a)
  \/ \E a \in Attempts : ConnectPipeline(a)
  \/ \E a \in Attempts : ConnectRejected(a)
  \/ \E a \in Attempts : OnOpen(a)
  \/ \E a \in Attempts : OnClose(a)
  \/ \E a \in Attempts : OnError(a)

SpecLifecycle == InitConnected /\ [][NextLifecycle]_vars

\* An established session with the note organizer of the App: texts typed
\* by the user, the debounce timer, and the organizer call with its answer.
NextInsight ==
  \/ \E text \in InsightTexts : SendTextMessage(text)
  \/ DebounceFire
  \/ GenerateInsight
  \/ \E reply \in Replies : InsightReturns(reply)

SpecInsight == InitConnected /\ [][NextInsight]_vars

\* The user calls connect() while no reconnect callback is pending: once an
\* error has scheduled one, the user leaves the rest to the hook.
UserConnect ==
  /\ timers = 0
  /\ Connect

\* onerror of session a, as long as an attempt is left for the retry it may
\* schedule.
OnErrorBounded(a) ==
  /\ nAttempts < MaxAttempts
  /\ OnError(a)

\* The connection lifecycle alone: connect(), disconnect(), the steps of
\* connect() behind its awaits, the callbacks of the session and the
\* reconnect callback.
NextReconnect ==
  \/ UserConnect
  \/ \E threw \in BOOLEAN : Disconnect(threw)
  \/ ReconnectTimer
  \/ \E a \in Attempts : ConnectResumed(a)
  \/ \E a \in Attempts : ConnectMic(a)
  \/ \E a \in Attempts : ConnectSys(a)
  \/ \E a \in Attempts : ConnectPipeline(a)
  \/ \E a \in Attempts : ConnectRejected(a)
  \/ \E a \in Attempts : OnOpen(a)
  \/ \E a \in Attempts : OnClose(a)
  \/ \E a \in Attempts : OnErrorBounded(a)

\* setTimeout(() => connect(), 1500) is never cancelled and the event loop
\* runs every callback that is due: a pending reconnect callback fires.
SpecReconnect == Init /\ [][NextReconnect]_vars /\ WF_vars(ReconnectTimer)


\* ================================================================= claims
\* No pipeline ref is held and nothing is playing.
NoResourcesHeld ==
  /\ audioContextRef = 0 /\ streamRef = 0 /\ systemStreamRef = 0
  /\ processorRef = 0 /\ sourceRef = 0 /\ systemSourceRef = 0
  /\ analyser = 0
  /\ audioSourcesRef = {}

\* A step that tears ActiveAudioResources down: whatever the refs held
\* before the step is released by it, and no ref is held after it.
TornDown ==
  /\ NoResourcesHeld'
  /\ audioContextRef \notin ctxOpen'
  /\ streamRef \notin micLive'
  /\ systemStreamRef \notin sysLive'
  /\ processorRef \notin procLive'

\* A step that acquires no audio context, capture stream or remote session.
NothingAcquired ==
  /\ ctxOpen' \subseteq ctxOpen
  /\ micLive' \subseteq micLive
  /\ sysLive' \subseteq sysLive
  /\ \A a \in Attempts : sess[a] = "none" => sess'[a] = "none"
  /\ UNCHANGED <<pipelineRefs, sessionRef, pc, nAttempts>>

\* C1: a reconnect callback that fires after the user's disconnect(), and
\* before the user calls connect() again, is a no-op: status stays
\* Disconnected, active and reconnectRequested stay false and no audio
\* context, capture stream or remote session is acquired.
C1_StaleReconnectIsNoOp ==
  [][(ReconnectTimer /\ userStopped) =>
       /\ status' = DISCONNECTED
       /\ ~isLiveRef'
       /\ ~shouldReconnectRef'
       /\ NothingAcquired]_vars

\* C2: at most one scheduled reconnect callback is outstanding in every
\* reachable state.
C2_AtMostOneReconnectPending == timers <= 1

\* C3: a remote error handled while active is true ends with status
\* Connecting and the reconnecting indicator set, reconnectRequested true,
\* no error surfaced, the resources torn down and exactly one more
\* reconnect callback scheduled.
C3_ErrorWhileActiveReconnects ==
  [][\A a \in Attempts : (OnError(a) /\ isLiveRef) =>
       /\ status' = CONNECTING
       /\ isReconnecting'
       /\ shouldReconnectRef'
       /\ errorMessage' = errorMessage
       /\ TornDown
       /\ timers' = timers + 1]_vars

\* The only attempt's session failed while active: one callback is pending.
C3_Witness ==
  /\ nAttempts = 1 /\ sess[1] = "closing" /\ timers = 1
  /\ status = CONNECTING /\ isReconnecting /\ shouldReconnectRef
  /\ ~userStopped

\* C4: when connect() resumes from a handshake during which the user
\* disconnected, the opened handle is not retained, status and active stay
\* as they are (Disconnected, false) and no processing handle is wired.
\* (The only attempt so far holds its microphone from before the handshake
\* on; with its session open and nothing held, the user's disconnect() came
\* after that.)
C4_CancelledHandshakeDiscarded ==
  [][\A a \in Attempts :
       (ConnectPipeline(a) /\ nAttempts = 1 /\ sess[a] = "open"
          /\ userStopped /\ ~isLiveRef /\ status = DISCONNECTED
          /\ NoResourcesHeld) =>
         /\ sessionRef' = 0
         /\ status' = DISCONNECTED
         /\ ~isLiveRef'
         /\ processorRef' = 0 /\ sourceRef' = 0 /\ analyser' = 0
         /\ procLive' = procLive]_vars

C6_CloseWhileReconnectingIgnored ==
  [][\A a \in Attempts : (OnClose(a) /\ shouldReconnectRef) =>
       UNCHANGED <<status, errorMessage, isReconnecting, flags, torn,
                   sessionRef, timers, pc, nAttempts>>]_vars

\* The failed session closed while its reconnect was still pending.
C6_Witness ==
  /\ nAttempts = 1 /\ sess[1] = "closed" /\ shouldReconnectRef
  /\ status = CONNECTING /\ isReconnecting /\ timers = 1

\* C7: a closed event received while reconnectRequested is false moves
\* status to Disconnected, tears the resources down (active false, nothing
\* playing) and schedules no reconnect.
C7_CloseDisconnects ==
  [][\A a \in Attempts : (OnClose(a) /\ ~shouldReconnectRef) =>
       /\ status' = DISCONNECTED
       /\ ~isLiveRef'
       /\ TornDown
       /\ timers' = timers
       /\ UNCHANGED shouldReconnectRef]_vars

\* The established session closed on its own, never asked to by the user.
C7_Witness ==
  /\ nAttempts = 1 /\ pc[1] = "done" /\ sess[1] = "closed" /\ timers = 0
  /\ ~userStopped /\ status = DISCONNECTED /\ errorMessage = Null
  /\ ~isLiveRef /\ NoResourcesHeld

\* C8: a remote error received while active is false only tears the
\* resources down: status, reconnectRequested, the indicator and the error
\* message are unchanged and no reconnect is scheduled.
C8_ErrorWhileInactiveTearsDownOnly ==
  [][\A a \in Attempts : (OnError(a) /\ ~isLiveRef) =>
       /\ UNCHANGED <<status, errorMessage, isReconnecting,
                      shouldReconnectRef, timers, sessionRef>>
       /\ ~isLiveRef'
       /\ TornDown]_vars

\* The session failed during a handshake the user had already cancelled.
C8_Witness ==
  /\ nAttempts = 1 /\ pc[1] = "handshake" /\ sess[1] = "closing"
  /\ timers = 0 /\ userStopped /\ status = DISCONNECTED
  /\ ~shouldReconnectRef /\ ~isReconnecting

C10_ConnectSetsFlagsFirst ==
  [][\A k \in ApiKeys :
       (~Falsy(k) /\ ConnectCall(k) /\ pc'[nAttempts'] \in {"resume", "mic"}) =>
         /\ isLiveRef'
         /\ ~shouldReconnectRef'
         /\ errorMessage' = Null
         /\ status' = CONNECTING]_vars

\* A second connect() is at its first await after the first one failed
\* with a message, which it cleared.
C10_Witness ==
  /\ nAttempts = 2 /\ pc[1] = "done" /\ sess[1] = "none"
  /\ pc[2] \in {"resume", "mic"}
  /\ isLiveRef /\ ~shouldReconnectRef
  /\ errorMessage = Null /\ status = CONNECTING

\* Attempt a's connect() ends in its catch block in this step: it returns
\* without having wired its processor.
SetupFails(a) ==
  /\ pc[a] # "done" /\ pc'[a] = "done"
  /\ processorRef' # a

\* Nothing that attempt a acquired is still open.
Released(a) ==
  /\ a \notin ctxOpen /\ a \notin micLive
  /\ a \notin sysLive /\ a \notin procLive

\* C11: every fatal failure of connect()'s setup ends with status Error,
\* active false, no ref held, everything the failing attempt had acquired
\* released and no reconnect scheduled; the message is the permission one
\* only for a rejected microphone request, the generic one otherwise.
C11_SetupFailureTearsDown ==
  [][\A a \in Attempts : SetupFails(a) =>
       /\ status' = ERROR
       /\ ~isLiveRef'
       /\ NoResourcesHeld'
       /\ Released(a)'
       /\ timers' <= timers
       /\ errorMessage' \in {MsgDenied, MsgFailed}
       /\ errorMessage' = MsgDenied => pc[a] = "mic"]_vars

\* C12: a rejected getDisplayMedia() is not fatal: connect() goes on to
\* open the remote session with the microphone it holds, and status, the
\* live flag and the error message are as before (not Error, still active,
\* nothing surfaced).
C12_SystemCaptureFailureNonFatal ==
  [][\A a \in Attempts : (pc[a] = "sys" /\ sysStream'[a] = "failed") =>
       /\ pc'[a] = "handshake" /\ sess'[a] = "pending"
       /\ UNCHANGED <<status, errorMessage, isLiveRef>>
       /\ UNCHANGED <<streamRef, micLive, systemStreamRef, sysLive>>]_vars

\* The only attempt is in its handshake, with the microphone and without
\* the system stream it asked for.
C12_Witness ==
  /\ nAttempts = 1 /\ pc[1] = "handshake" /\ sess[1] = "pending"
  /\ sysStream[1] = "failed" /\ systemStreamRef = 0 /\ sysLive = {}
  /\ streamRef = 1 /\ 1 \in micLive
  /\ status = CONNECTING /\ isLiveRef /\ errorMessage = Null

\* C13: an opened event received while active is true moves status to
\* Connected and clears the reconnecting indicator, whether the session
\* was opened by the user's connect() or by an automatic reconnect.
C13_OpenWhileActiveConnects ==
  [][\A a \in Attempts : (OnOpen(a) /\ isLiveRef) =>
       /\ status' = CONNECTED
       /\ ~isReconnecting'
       /\ UNCHANGED <<flags, errorMessage, timers>>]_vars

\* The first session failed while active, the reconnect callback fired and
\* the session of the second attempt opened: Connected, indicator off.
C13_Witness ==
  /\ nAttempts = 2 /\ sess[1] \in {"closing", "closed"} /\ timers = 0
  /\ sess[2] = "open" /\ pc[2] = "resolved"
  /\ ~userStopped /\ errorMessage = Null
  /\ isLiveRef /\ status = CONNECTED /\ ~isReconnecting

\* C14: a frame is handed to the remote session only by a step that starts
\* with active true and the processing handle held; that step changes
\* nothing but the record of the send.  A block captured in any other
\* state (after disconnect() or a teardown, its send deferred or not) is
\* dropped and no variable changes.
C14_NoFrameWhileInactive ==
  [][lastSend' # lastSend =>
       /\ isLiveRef /\ processorRef # 0
       /\ UNCHANGED sendFrame]_vars

\* A frame went out while connected; then the user disconnected during the
\* handshake of the next attempt, whose processor is wired all the same
\* and keeps delivering blocks, which are dropped.
C14_Witness ==
  /\ lastSend = "sent"
  /\ userStopped /\ status = DISCONNECTED /\ ~isLiveRef
  /\ processorRef = 2 /\ 2 \in procLive /\ sess[2] = "open"

\* C15: a send that raises is absorbed by the callback: status, the flags,
\* the indicator, the error message, the refs and the pending reconnect
\* callbacks are as before, and the next block of the same processor is
\* still let through by the guards.
C15_SendFailureAbsorbed ==
  [][\A a \in Attempts : (OnAudioProcess(a, Quiet, TRUE) /\ lastSend' = "threw") =>
       /\ UNCHANGED <<status, errorMessage, isReconnecting, flags, timers,
                      sessionRef, sess, torn>>
       /\ a \in procLive' /\ ~FrameDropped']_vars

\* A send raised on the established session: still Connected and active,
\* the processor wired, no reconnect requested or scheduled.
C15_Witness ==
  /\ lastSend = "threw"
  /\ nAttempts = 1 /\ sess[1] = "open" /\ status = CONNECTED
  /\ isLiveRef /\ ~shouldReconnectRef /\ ~isReconnecting /\ timers = 0
  /\ processorRef = 1 /\ 1 \in procLive /\ audioContextRef = 1

\* C16: teardown is idempotent and tolerant of a partial pipeline: in every
\* reachable state, whatever subset of the handles is held, tearing down
\* twice gives the state that tearing down once gives, in which no handle
\* is held, nothing is playing, the live flag is off and no debounce timer
\* is marked.
C16_TeardownIdempotent ==
  LET once == Teardown(TornState)
      twice == Teardown(once)
  IN /\ twice = once
     /\ once.audioContextRef = 0 /\ once.streamRef = 0
     /\ once.systemStreamRef = 0 /\ once.processorRef = 0
     /\ once.sourceRef = 0 /\ once.systemSourceRef = 0
     /\ once.analyser = 0
     /\ once.audioSourcesRef = {}
     /\ ~once.isLiveRef /\ ~once.bufferDebounceTimerRef
     /\ once.bufferAccumulatorRef = <<>>

\* A partial pipeline with two reply buffers playing: the context and the
\* microphone are held, the session is open, the processor is not wired
\* yet; teardown has handles to release and buffers to stop.
C16_Witness ==
  /\ sess[1] = "open" /\ pc[1] = "resolved"
  /\ audioContextRef = 1 /\ streamRef = 1
  /\ processorRef = 0 /\ sourceRef = 0 /\ analyser = 0
  /\ Cardinality(audioSourcesRef) = 2
  /\ Teardown(TornState) # TornState
  /\ Teardown(TornState).ctxOpen = ctxOpen \ {1}

\* C17: in the initial state and whenever status is Disconnected or Error
\* no ActiveAudioResources are held: no ref is set, nothing is playing, and
\* every context, capture stream and processor that any connect() acquired
\* has been released.
C17_IdleHoldsNothing ==
  status \in {DISCONNECTED, ERROR} =>
    /\ NoResourcesHeld
    /\ ctxOpen = {} /\ micLive = {} /\ sysLive = {} /\ procLive = {}

\* C18: a reply-audio chunk received with talkback off leaves the set of
\* playing buffers as it is; with talkback on and a context held it adds
\* exactly one buffer that was not playing; the end of a buffer removes
\* that buffer and no other.
C18_PlaybackQueue ==
  [][/\ \A a \in Attempts, tb \in BOOLEAN : OnMessageAudio(a, tb, TRUE) =>
          IF tb /\ audioContextRef # 0
            THEN /\ audioSourcesRef \subseteq audioSourcesRef'
                 /\ Cardinality(audioSourcesRef') = Cardinality(audioSourcesRef) + 1
            ELSE audioSourcesRef' = audioSourcesRef
     /\ \A b \in Buffers : SourceEnded(b) =>
          /\ b \in audioSourcesRef
          /\ audioSourcesRef' = audioSourcesRef \ {b}]_vars

\* Two reply buffers are playing at once on the established session.
C18_Witness ==
  /\ status = CONNECTED /\ sess[1] = "open" /\ audioContextRef = 1
  /\ Cardinality(audioSourcesRef) = 2

\* C19: at most one transcript debounce timer is pending in every
\* reachable state, and it is pending exactly while the marker is set; a
\* text that arrives while it is pending is appended to the accumulator,
\* starts no second timer and leaves the marker and the visible buffer
\* alone.
C19_SingleDebounceTimer ==
  /\ [](debounceTimers <= 1 /\ (bufferDebounceTimerRef <=> debounceTimers = 1))
  /\ [][\A text \in Texts :
          (SendTextMessage(text) /\ ~Blank(text) /\ bufferDebounceTimerRef) =>
            /\ bufferAccumulatorRef' = bufferAccumulatorRef \o <<" ">> \o text
            /\ UNCHANGED <<bufferDebounceTimerRef, debounceTimers,
                           currentTranscriptBuffer>>]_vars

\* Two texts arrived within one debounce window: both are in the
\* accumulator, one timer is pending, nothing is visible yet.
C19_Witness ==
  /\ Len(segments) = 2
  /\ bufferAccumulatorRef = <<" ", "h", "i", " ", "o", "k", "!">>
  /\ bufferDebounceTimerRef /\ debounceTimers = 1
  /\ currentTranscriptBuffer = <<>>

\* C20: when the debounce timer fires the whole accumulator is appended to
\* the end of the visible buffer in that one step, the accumulator is left
\* empty and the marker cleared; the accumulator holds the texts that
\* arrived since the timer was started, in the order of their arrival (it
\* is empty whenever no timer is marked and every arrival appends to its
\* end); no arrival and no disconnect() changes the visible buffer.
C20_FlushMovesAccumulator ==
  /\ [](~bufferDebounceTimerRef => bufferAccumulatorRef = <<>>)
  /\ [][/\ DebounceFire =>
             /\ currentTranscriptBuffer' =
                  currentTranscriptBuffer \o bufferAccumulatorRef
             /\ bufferAccumulatorRef' = <<>>
             /\ ~bufferDebounceTimerRef'
             /\ UNCHANGED segments
        /\ \A text \in Texts : SendTextMessage(text) =>
             /\ UNCHANGED currentTranscriptBuffer
             /\ \E tail \in {<<>>, <<" ">> \o text} :
                  bufferAccumulatorRef' = bufferAccumulatorRef \o tail
        /\ \A threw \in BOOLEAN : Disconnect(threw) =>
             UNCHANGED currentTranscriptBuffer]_vars

\* A first text was flushed on its own; the next two arrived within one
\* window and were flushed together behind it.
C20_Witness ==
  /\ Len(segments) = 3
  /\ currentTranscriptBuffer =
       <<" ", "h", "i", " ", "o", "k", "!", " ", "h", "i">>
  /\ bufferAccumulatorRef = <<>>
  /\ ~bufferDebounceTimerRef /\ debounceTimers = 0

\* ------------------------------------------------- transcript and segments
IsPrefix(s, t) == Len(s) <= Len(t) /\ SubSeq(t, 1, Len(s)) = s

\* C21: the hook never clears or shortens the visible transcript buffer:
\* in every step (fragments, manual sends, flushes, teardown by
\* disconnect) the previous content of the buffer is a prefix of the new
\* content.
C21_VisibleBufferAppendOnly ==
  [][IsPrefix(currentTranscriptBuffer, currentTranscriptBuffer')]_vars

\* The session was torn down by disconnect() and the buffer, flushed more
\* than once, still holds its text.
C21_VisibleBufferAppendOnlyWitness ==
  /\ userStopped
  /\ Len(currentTranscriptBuffer) >= 6

\* The segments after a fragment of the sender, as the merge rule gives them.
MergeRule(sender, text) ==
  IF /\ Len(segments) > 0
     /\ segments[Len(segments)].sender = sender
     /\ segments[Len(segments)].isPartial
    THEN /\ Len(segments') = Len(segments)
         /\ \A i \in 1..(Len(segments) - 1) : segments'[i] = segments[i]
         /\ segments'[Len(segments)] =
              [sender |-> sender,
               text |-> segments[Len(segments)].text \o text,
               isPartial |-> TRUE]
    ELSE segments' = Append(segments,
              [sender |-> sender, text |-> text, isPartial |-> TRUE])

\* C22: a transcription fragment of sender s extends the last segment when
\* that segment exists, has sender s and is partial (the count is unchanged);
\* otherwise exactly one new partial segment of sender s with the fragment
\* as its text is appended.
C22_SegmentMergeRule ==
  [][\A a \in Attempts, text \in Texts \ {<<>>} :
       /\ OnMessage(a, text, <<>>, FALSE) => MergeRule("user", text)
       /\ OnMessage(a, <<>>, text, FALSE) => MergeRule("model", text)]_vars

\* Two fragments of the user were merged, and a fragment of the model
\* started a new segment while the user's segment was still partial.
C22_SegmentMergeRuleWitness ==
  segments = << [sender |-> "user", text |-> <<" ", " ">>, isPartial |-> TRUE],
                [sender |-> "model", text |-> <<"h", "i">>, isPartial |-> TRUE] >>

\* The last segment changes only by an extension of its text or by the
\* clearing of its partial flag; no segment is removed.
LastChangesInPlace ==
  /\ Len(segments') >= Len(segments)
  /\ Len(segments) > 0 =>
       LET old == segments[Len(segments)]
           new == segments'[Len(segments)]
       IN /\ new.sender = old.sender
          /\ IsPrefix(old.text, new.text)
          /\ new.isPartial => old.isPartial

\* C23 as stated: every segment that is not the last one is immutable, in
\* text and in partial flag, in every step.
C23_EarlierSegmentsImmutable ==
  [][/\ LastChangesInPlace
     /\ \A i \in 1..(Len(segments) - 1) : segments'[i] = segments[i]]_vars

\* C23: a segment that is not the last one keeps its sender and its text in
\* every step, and its partial flag is never set again; the flag of such a
\* segment is cleared by a turn completion only, which clears it on every
\* segment.
C23_EarlierSegmentsKeepText ==
  [][/\ LastChangesInPlace
     /\ \A i \in 1..(Len(segments) - 1) :
          /\ segments'[i].sender = segments[i].sender
          /\ segments'[i].text = segments[i].text
          /\ segments'[i].isPartial => segments[i].isPartial
          /\ segments'[i].isPartial # segments[i].isPartial =>
               \A j \in 1..Len(segments') : ~segments'[j].isPartial]_vars

\* A fragment of the user (blank, so not typed) and a reply of the model
\* that followed it, both made final.
C23_EarlierSegmentsKeepTextWitness ==
  segments = << [sender |-> "user", text |-> <<" ">>, isPartial |-> FALSE],
                [sender |-> "model", text |-> <<"h", "i">>, isPartial |-> FALSE] >>

\* C24: a turn completion clears the partial flag of every segment and
\* changes nothing else (number, order, sender and text of the segments,
\* the buffers and the session stay); after it a fragment of either sender
\* starts a new segment.
C24_TurnCompleteFinalizesAll ==
  [][\A a \in Attempts :
       /\ OnMessage(a, <<>>, <<>>, TRUE) =>
            /\ Len(segments') = Len(segments)
            /\ \A i \in 1..Len(segments) :
                 /\ segments'[i].sender = segments[i].sender
                 /\ segments'[i].text = segments[i].text
                 /\ ~segments'[i].isPartial
            /\ UNCHANGED <<currentTranscriptBuffer, bufferAccumulatorRef,
                           bufferDebounceTimerRef, debounceTimers, session>>
       /\ \A text \in Texts \ {<<>>}, turnComplete \in BOOLEAN :
            /\ (\E inText, outText \in Texts :
                  OnMessage(a, inText, outText, TRUE)) =>
                  \A i \in 1..Len(segments') : ~segments'[i].isPartial
            /\ (\A i \in 1..Len(segments) : ~segments[i].isPartial) =>
                 /\ OnMessage(a, text, <<>>, turnComplete) =>
                      Len(segments') = Len(segments) + 1
                 /\ OnMessage(a, <<>>, text, turnComplete) =>
                      Len(segments') = Len(segments) + 1]_vars

\* Two consecutive segments of the model, all final: a turn completion came
\* between them and the later fragment started a segment of its own.
C24_TurnCompleteFinalizesAllWitness ==
  /\ Len(segments) = 3
  /\ segments[2].sender = "model" /\ segments[3].sender = "model"
  /\ \A i \in 1..3 : ~segments[i].isPartial

\* ---------------------------------------------------------------- capture
\* C25: every block that is processed is gated with the threshold configRef
\* holds when the block arrives: a block whose RMS is below it becomes all
\* zeros, a block whose RMS is at or above it (a threshold of 0 included)
\* is unchanged; a change of the threshold changes nothing but configRef
\* (no status change, no teardown, no reconnect).
C25_NoiseGateLiveThreshold ==
  [][/\ \A a \in Attempts, block \in Blocks, threw \in BOOLEAN :
          (OnAudioProcess(a, block, threw) /\ ~FrameDropped) =>
             IF SumSquares(block) < configRef * configRef * Len(block)
               THEN /\ Len(gated') = Len(block)
                    /\ \A i \in 1..Len(block) : gated'[i] = 0
               ELSE gated' = block
     /\ configRef' # configRef =>
          UNCHANGED <<hookState, flags, pipelineRefs, sessionRef,
                      audioSourcesRef, pending, transcript, pc, sess,
                      sysStream, handles, timers, nAttempts, userStopped,
                      lastSend, gated, calc, trackEnabled, textSent, app>>]_vars

\* The threshold was raised from its default and a block whose RMS equals
\* the new threshold went through unchanged.
C25_NoiseGateLiveThresholdWitness ==
  /\ configRef = 2
  /\ gated = <<2, -2>>
  /\ lastSend = "sent"
  /\ status = CONNECTED

\* -------------------------------------------------------------- audioUtils
\* C26: for every input and every rate other than 16000, up or down, the
\* output of the resampler has round(inputLength / ratio) samples, every
\* index it reads lies in 0..inputLength-1, and an empty input gives an
\* empty output.
C26_ResamplerBounds ==
  (calc.fn = "downsampleTo16k" /\ calc.n # PCM_SAMPLE_RATE) =>
    LET len == Len(calc.data)
        m == Len(calc.out)
    IN /\ (2 * m - 1) * calc.n <= 2 * len * PCM_SAMPLE_RATE
       /\ 2 * len * PCM_SAMPLE_RATE < (2 * m + 1) * calc.n
       /\ calc.idx \subseteq 0..(len - 1)
       /\ \A j \in 1..m : calc.out[j] # NaN
       /\ len = 0 => calc.out = <<>>

\* Three samples were upsampled from 8 kHz to six: the last output sample
\* lies past the last input sample and reads it twice.
C26_ResamplerBoundsWitness ==
  /\ calc.fn = "downsampleTo16k"
  /\ calc.n = 8000
  /\ Len(calc.data) = 3
  /\ Len(calc.out) = 6
  /\ 2 \in calc.idx

\* C27: at 16000 Hz the output is the input; a constant input gives that
\* constant at every output sample; at k * 16000 Hz output sample i is
\* input sample i * k (the 9 samples of the test at 48 kHz give the samples
\* at 0, 3 and 6).
C27_ResamplerValues ==
  calc.fn = "downsampleTo16k" =>
    /\ calc.n = PCM_SAMPLE_RATE => calc.out = calc.data
    /\ \A v \in {-2 * Level, -Level, 0, Level} :
         (\A i \in 1..Len(calc.data) : calc.data[i] = v) =>
            \A j \in 1..Len(calc.out) : calc.out[j] = v
    /\ calc.n % PCM_SAMPLE_RATE = 0 =>
         \A j \in 1..Len(calc.out) :
            calc.out[j] = calc.data[(j - 1) * (calc.n \div PCM_SAMPLE_RATE) + 1]
    /\ (calc.data = TestBuffer /\ calc.n = 48000) =>
         calc.out = <<2 * Level, Level, -2 * Level>>

\* The test buffer was downsampled from 48 kHz to its samples 0, 3 and 6.
C27_ResamplerValuesWitness ==
  /\ calc.fn = "downsampleTo16k"
  /\ calc.n = 48000
  /\ calc.data = TestBuffer
  /\ calc.out = <<2 * Level, Level, -2 * Level>>

\* The 16-bit values a blob of createBlob carries.
BlobInt16(base64) == Int16Of(Decode(base64))

\* C28: createBlob maps the sample 0.0 to 0, 1.0 to 32767 and -1.0 to
\* -32768, gives exactly 2 bytes per sample, tagged as 16-bit PCM at
\* 16 kHz, and a block of silence encoded and decoded again is all zeros.
C28_CodecBoundary ==
  calc.fn = "createBlob" =>
    /\ Len(Decode(calc.out)) = 2 * Len(calc.data)
    /\ calc.res = "audio/pcm;rate=16000"
    /\ \A i \in 1..Len(calc.data) :
         /\ calc.data[i] = 0 => BlobInt16(calc.out)[i] = 0
         /\ calc.data[i] = 2 => BlobInt16(calc.out)[i] = 32767
         /\ calc.data[i] = -2 => BlobInt16(calc.out)[i] = -32768
    /\ (calc.data # <<>> /\ \A i \in 1..Len(calc.data) : calc.data[i] = 0) =>
         /\ ~DecodeThrows(Decode(calc.out), 1)
         /\ DecodeAudioData(Decode(calc.out), 1) =
              [i \in 1..Len(calc.data) |-> 0]

\* C29: decodeAudioData throws whenever the number of bytes is not a
\* multiple of 2 * numChannels.
C29_DecodeRejectsPartialFrames ==
  (calc.fn = "decodeAudioData" /\ Len(calc.data) % (2 * calc.n) # 0) =>
     calc.res = "threw"

\* C30: organizeTranscript never throws.  With an empty or blank
\* transcript or a missing credential it resolves to null without a
\* request to the model; when the request fails or the response has no
\* text (or text that cannot be parsed) it resolves to null; otherwise it
\* resolves to the parsed note with a timestamp added.
C30_OrganizerNeverThrows ==
  calc.fn = "organizeTranscript" =>
    LET apiKey == calc.arg[1]
        reply == calc.arg[2]
        blank == \A i \in 1..Len(calc.data) : calc.data[i] = " "
        missing == apiKey = Undefined \/ apiKey = ""
    IN /\ calc.res \in {"null", "note"}
       /\ (blank \/ missing) => (calc.res = "null" /\ calc.n = 0)
       /\ (~blank /\ ~missing) => calc.n = 1
       /\ reply \in {"rejected", "notext", "malformed"} => calc.res = "null"
       /\ (~blank /\ ~missing /\ reply = "note") =>
            /\ calc.res = "note"
            /\ \E i \in 1..Len(calc.out) : calc.out[i] = "timestamp"
            /\ \A j \in 1..Len(NoteFields) :
                 \E i \in 1..Len(calc.out) : calc.out[i] = NoteFields[j]

\* A transcript with content was organized with a credential into a note.
C30_OrganizerNeverThrowsWitness ==
  /\ calc.fn = "organizeTranscript"
  /\ calc.data = <<"h", "i">>
  /\ calc.arg = <<"test", "note">>
  /\ calc.res = "note"
  /\ calc.n = 1

\* ------------------------------------------------------------- microphone
\* C31: toggleMic flips the microphone flag and gives the tracks of the
\* held microphone stream the new value; twice it restores the flag; it
\* leaves status, the live and reconnect flags and every held resource as
\* they were, with or without a stream.
C31_ToggleMic ==
  /\ [](MicAfterToggle(MicAfterToggle(isMicOn)) = isMicOn)
  /\ [][isMicOn' # isMicOn =>
          /\ isMicOn' = ~isMicOn
          /\ streamRef # 0 => trackEnabled' = isMicOn'
          /\ UNCHANGED <<status, isReconnecting, errorMessage, isLiveRef,
                         shouldReconnectRef, pipelineRefs, sessionRef,
                         audioSourcesRef, handles, sess, timers>>]_vars

\* The microphone was muted on the established session: the flag is off
\* and the tracks of the held stream are disabled.
C31_ToggleMicWitness ==
  /\ status = CONNECTED /\ streamRef = 1
  /\ ~isMicOn /\ ~trackEnabled

\* ------------------------------------------------------------ concurrency
\* The session of attempt a is superseded: its connect() has returned, a
\* later connect() was made and sessionRef does not hold it.
Superseded(a) == a < nAttempts /\ pc[a] = "done" /\ sessionRef # a

\* C32: a close or error event of a session that a later connect() has
\* superseded changes no status, tears nothing down and schedules no
\* reconnect.
C32_StaleSessionEventsIgnored ==
  [][\A a \in Attempts :
       (Superseded(a) /\ (OnClose(a) \/ OnError(a))) =>
          UNCHANGED <<status, isReconnecting, flags, pipelineRefs, analyser,
                      handles, timers>>]_vars

\* Attempt a is live: its connect() is between its first and its last step,
\* or its session is pending or open.
LiveAttempt(a) ==
  \/ pc[a] \notin {"idle", "done"}
  \/ sess[a] \in {"pending", "open"}

\* C33: at most one attempt is live at any time: no reconnect callback
\* calls connect() while the setup or the session of an attempt is live.
C33_SingleLiveAttempt ==
  [][timers' < timers => \A a \in Attempts : ~LiveAttempt(a)]_vars

\* C34: the reconnecting indicator is on only while status is Connecting.
C34_ReconnectingOnlyWhileConnecting ==
  isReconnecting => status = CONNECTING

\* C35: while status is Connected the session is active, and while status
\* is Disconnected or Error it is not.
C35_StatusMatchesActive ==
  /\ status = CONNECTED => isLiveRef
  /\ status \in {DISCONNECTED, ERROR} => ~isLiveRef

C35_StatusMatchesActiveWitness ==
  /\ status = CONNECTED /\ isLiveRef
  /\ nAttempts > 1 /\ userStopped

\* C36: once an error of the session was handled while active, the
\* reconnect callback it scheduled fires, and firing it starts a new
\* attempt: connect() runs again, the session is active and status is
\* Connecting (unless that attempt fails in the same step).
C36_ReconnectFires ==
  /\ \A n \in 0..MaxAttempts :
       (timers > 0 /\ nAttempts = n) ~> (nAttempts > n)
  /\ [][timers' < timers =>
          /\ nAttempts' = nAttempts + 1
          /\ \/ isLiveRef' /\ status' = CONNECTING
             \/ pc'[nAttempts'] = "done" /\ status' = ERROR]_vars

C36_ReconnectFiresWitness ==
  /\ nAttempts > 1 /\ timers = 0
  /\ isReconnecting /\ isLiveRef /\ status = CONNECTING

\* The characters queued so far: those shown and those still pending.
QueuedSoFar == Len(currentTranscriptBuffer) + Len(bufferAccumulatorRef)

\* C37: the aggregator loses no transcript text: whatever was appended to
\* the pending accumulator is eventually in the visible buffer, so the
\* buffer grows to the length of all that was queued, also when a teardown
\* comes before the debounce timer fires.
C37_NoTranscriptTextLost ==
  \A n \in 1..MaxChars :
    (QueuedSoFar >= n) ~> (Len(currentTranscriptBuffer) >= n)

\* A step of the session lifecycle: connect() and the steps behind its
\* awaits, disconnect(), a close or an error of the session with the
\* teardown it runs, and the reconnect callback.
LifecycleStep ==
  \/ Connect
  \/ ReconnectTimer
  \/ \E threw \in BOOLEAN : Disconnect(threw)
  \/ \E a \in Attempts :
       \/ ConnectResumed(a) \/ ConnectMic(a) \/ ConnectSys(a)
       \/ ConnectPipeline(a) \/ ConnectRejected(a)
       \/ OnOpen(a) \/ OnClose(a) \/ OnError(a)

\* C38: the segments are append-only across the session lifecycle: no step
\* lowers their number or shortens a text, and connect(), disconnect(),
\* teardown, a remote close or error and the automatic reconnect leave the
\* segments as they are.
C38_SegmentsSurviveLifecycle ==
  [][/\ Len(segments') >= Len(segments)
     /\ \A i \in 1..Len(segments) :
          IsPrefix(segments[i].text, segments'[i].text)
     /\ LifecycleStep => UNCHANGED segments]_vars

\* Two segments are still there after the first session ended and the next
\* attempt connected.
C38_SegmentsSurviveLifecycleWitness ==
  /\ Len(segments) >= 2
  /\ sess[1] = "closed"
  /\ nAttempts > 1 /\ sessionRef = nAttempts /\ status = CONNECTED

\* C39: sendTextMessage with an empty or blank text changes nothing;
\* otherwise it appends exactly one final segment of the user, queues the
\* text for the debounced flush, and hands the text to the session exactly
\* when a session handle is held and the session is active, so never while
\* status is Disconnected or Error; it never changes status or the flags.
C39_SendTextMessage ==
  [][\A text \in Texts :
       SendTextMessage(text) =>
         /\ UNCHANGED <<status, isReconnecting, errorMessage, flags>>
         /\ IF Blank(text)
              THEN UNCHANGED vars
              ELSE /\ Len(segments') = Len(segments) + 1
                   /\ SubSeq(segments', 1, Len(segments)) = segments
                   /\ segments'[Len(segments')] =
                        [sender |-> "user", text |-> text, isPartial |-> FALSE]
                   /\ bufferAccumulatorRef' =
                        bufferAccumulatorRef \o <<" ">> \o text
                   /\ bufferDebounceTimerRef'
                   /\ currentTranscriptBuffer' = currentTranscriptBuffer
                   /\ textSent' = text <=> (sessionRef # 0 /\ isLiveRef)
                   /\ textSent' # text => textSent' = <<>>
                   /\ textSent' = text =>
                        status \notin {DISCONNECTED, ERROR}]_vars

\* A text was typed after the session had closed: the handle is still held,
\* the text is queued and nothing was handed to the session.
C39_SendTextMessageWitness ==
  /\ status = DISCONNECTED /\ sessionRef # 0 /\ ~isLiveRef
  /\ bufferAccumulatorRef # <<>>
  /\ textSent = <<>>

\* What was flushed into the visible buffer since the organizer call in
\* flight was given the buffer (the hook only appends to it).
FlushedSince ==
  SubSeq(currentTranscriptBuffer, Len(analysed) + 1,
         Len(currentTranscriptBuffer))

\* C40: text flushed into the visible buffer while an organizer call is in
\* flight is not lost: when the call returns a note and the buffer is
\* reset, what was flushed after the call started is still at the end of
\* the buffer; when the call returns nothing the buffer is unchanged.
C40_FlushedTextSurvivesInsight ==
  [][\A reply \in Replies :
       InsightReturns(reply) =>
         IF notes' # notes
           THEN /\ Len(currentTranscriptBuffer') >= Len(FlushedSince)
                /\ SubSeq(currentTranscriptBuffer',
                          Len(currentTranscriptBuffer') - Len(FlushedSince) + 1,
                          Len(currentTranscriptBuffer')) = FlushedSince
           ELSE currentTranscriptBuffer' = currentTranscriptBuffer]_vars

====
